---- MODULE Spec2Model ----
(***************************************************************************)
(* The InterruptContext module pass of MagentaInterruptContext.cpp: a      *)
(* depth-first walk from x86_exception_handler over direct calls and       *)
(* basic-block successors, which warns with the call chain whenever it     *)
(* reaches a black-listed function and does not enter sink functions.      *)
(*                                                                         *)
(* The C++ recursion is modelled with an explicit stack of frames, one     *)
(* frame per active invocation of traverseFunction, traverseBasicBlock or  *)
(* examineBlock; every action is one step of the frame on top.             *)
(***************************************************************************)
EXTENDS Integers, Sequences, FiniteSets, TLC

\* Largest number of instructions placed in the free blocks of a module.
MaxItems == 3

\* Largest number of times the pass manager runs the pass object on the module.
MaxRuns == 2

\* ------------------------------------------------------------------------
\* Configuration of the pass (class members)

BlackListSet == {"mutex_acquire", "mutex_acquire_timeout",
                 "mutex_acquire_timeout_internal"}

SinkFunctionSet == {"thread_preempt", "panic", "_panic"}

SourceFunction == "x86_exception_handler"

\* ------------------------------------------------------------------------
\* Name resolution

\* "no result" of __cxa_demangle
NullName == "<null>"

\* __cxa_demangle: the readable name of an Itanium-mangled symbol, NullName
\* for a symbol that is not mangled (every C function of the modules below).
cxa_demangle(raw) ==
    CASE raw = "_Z5panicv" -> "panic()"
      [] OTHER -> NullName

\* Name as computed at the top of traverseFunction.
DisplayName(F) ==
    LET DemangledName == cxa_demangle(F)
    IN  IF DemangledName # NullName THEN DemangledName ELSE F

\* ------------------------------------------------------------------------
\* The module under analysis (the input of runOnModule)
\*
\* A function is identified by its raw name (unique in an llvm::Module).  A
\* module maps each function it holds to its body, a sequence of basic
\* blocks (empty for a declaration); block 1 is the entry block.  A block
\* has instructions, possibly a terminator, and the terminator's successors,
\* given as block numbers of the same function or NullBlock.

NullBlock == 0

\* getCalledFunction() of an indirect call
NullFunction == "<indirect>"

Call(F) == [op |-> "call", callee |-> F]
IndirectCall == [op |-> "call", callee |-> NullFunction]
OtherInst == [op |-> "other", callee |-> NullFunction]

Block(insts, term, succs) == [insts |-> insts, term |-> term, succs |-> succs]

FuncNames == {SourceFunction, "foo", "_Z5panicv", "mutex_acquire", "panic"}

\* The instructions that vary are direct calls.
InstKinds == {Call(F) : F \in FuncNames}

\* The blocks whose instructions vary from module to module.
Sites == {<<SourceFunction, 1>>, <<SourceFunction, 2>>, <<"foo", 1>>}

Items == [site : Sites, inst : InstKinds]

ItemSeqs == UNION {[1..n -> Items] : n \in 0..MaxItems}

\* The instructions the items put in a block, in the items' order.
InstsAt(items, site) ==
    LET here == SelectSeq(items, LAMBDA it : it.site = site)
    IN  [k \in 1..Len(here) |-> here[k].inst]

\* Control-flow skeletons of the two blocks of x86_exception_handler: a loop
\* between the blocks, or an entry block without successors (block 2 is then
\* unreachable).
HandlerShapes == {"loop", "single"}

HandlerBody(shape, items) ==
    LET i1 == InstsAt(items, <<SourceFunction, 1>>)
        i2 == InstsAt(items, <<SourceFunction, 2>>)
    IN  CASE shape = "loop" ->
               <<Block(i1, TRUE, <<2, 1>>), Block(i2, TRUE, <<1>>)>>
          [] OTHER ->
               <<Block(i1, TRUE, <<>>), Block(i2, TRUE, <<>>)>>

\* foo is a declaration when no item gives it an instruction; otherwise it
\* is one block that branches to itself and has one null successor.
FooBody(items) ==
    IF InstsAt(items, <<"foo", 1>>) = <<>>
    THEN <<>>
    ELSE <<Block(InstsAt(items, <<"foo", 1>>), TRUE, <<NullBlock, 1>>)>>

\* The rest of the module is the same in every module: a C++ panic() whose
\* block has no terminator and, after an instruction that is no call and an
\* indirect call, takes a mutex and calls foo; a mutex_acquire that calls
\* foo; and a panic that takes a mutex.
LibraryBody(F) ==
    CASE F = "_Z5panicv" ->
           <<Block(<<OtherInst, IndirectCall, Call("mutex_acquire"), Call("foo")>>,
                   FALSE, <<>>)>>
      [] F = "mutex_acquire" -> <<Block(<<Call("foo")>>, TRUE, <<>>)>>
      [] F = "panic" -> <<Block(<<Call("mutex_acquire")>>, TRUE, <<>>)>>

MakeModule(hasSource, shape, items) ==
    [F \in (IF hasSource THEN FuncNames ELSE FuncNames \ {SourceFunction}) |->
        CASE F = SourceFunction -> HandlerBody(shape, items)
          [] F = "foo" -> FooBody(items)
          [] OTHER -> LibraryBody(F)]

\* An item is usable when its block and its callee are in the module.
UsableItem(hasSource, it) ==
    /\ it.site[1] = SourceFunction => hasSource
    /\ it.inst = Call(SourceFunction) => hasSource

Modules ==
    {MakeModule(hasSource, shape, items) :
        <<hasSource, shape, items>> \in
            {q \in BOOLEAN \X HandlerShapes \X ItemSeqs :
                /\ \A k \in 1..Len(q[3]) : UsableItem(q[1], q[3][k])
                /\ ~q[1] => q[2] = "single"}}

\* ------------------------------------------------------------------------
\* State

VARIABLES
    M,                \* the module (never changes)
    source,           \* the member SourceFunction (never changes)
    starts,           \* history: the number of lines in errs when each call
                      \* of runOnModule began
    pc,               \* position of runOnModule: "runOnModule", "traversing", "returned"
    stack,            \* active invocations, innermost first
    BasicBlockPtrSet, \* blocks already walked, as <<function, block number>>
    FuncPtrSet,       \* functions already entered
    FunctionChain,    \* names of the functions being visited
    errs,             \* lines written to errs(), each a sequence of tokens
    ret,              \* <<value>> of the invocation that returned last
    called            \* history: call sites <<function, block, index>> whose
                      \* callee was handed to traverseFunction

vars == <<M, source, starts, pc, stack, BasicBlockPtrSet, FuncPtrSet, FunctionChain, errs,
          ret, called>>

\* F->size()
size(F) == Len(M[F])

\* M.getFunction(Name)
getFunction(Name) == IF Name \in DOMAIN M THEN Name ELSE NullFunction

Header == "Reached a black-listed function via the following call chain:"

\* The line warnOnCallChain writes: the header, then every name of the chain.
WarningLine(chain) == <<Header>> \o chain

\* A frame: the invocation's function (kind), its arguments F or <<F, B>>,
\* where it stands (at), the loop index i, and its locals Passed and Name.
\* chain0, errs0 and funcs0 remember FunctionChain, the number of lines
\* written and FuncPtrSet as they were when the invocation began.
Frame(kind, F, B) ==
    [kind |-> kind, F |-> F, B |-> B, at |-> "entry", i |-> 1,
     Passed |-> TRUE, Name |-> NullName,
     chain0 |-> FunctionChain, errs0 |-> Len(errs), funcs0 |-> FuncPtrSet]

top == Head(stack)

Running(kind, at) ==
    /\ pc = "traversing"
    /\ stack # <<>>
    /\ top.kind = kind
    /\ top.at = at

\* Resume with Passed = v in place of Passed &= v.
Resume_Assign(fr, v) ==
    CASE fr.kind = "traverseFunction" ->
           [fr EXCEPT !.Passed = v, !.at = "leave"]
      [] fr.kind = "traverseBasicBlock" /\ fr.at = "examine" ->
           [fr EXCEPT !.Passed = v, !.at = "terminator"]
      [] fr.kind = "traverseBasicBlock" /\ fr.at = "successors" ->
           [fr EXCEPT !.Passed = v, !.i = @ + 1]
      [] fr.kind = "examineBlock" ->
           [fr EXCEPT !.Passed = v, !.i = @ + 1]

\* The caller's frame once the call it was waiting for has returned v:
\* Passed &= v, and the caller moves on.
Resume(fr, v) ==
    CASE fr.kind = "traverseFunction" ->
           [fr EXCEPT !.Passed = @ /\ v, !.at = "leave"]
      [] fr.kind = "traverseBasicBlock" /\ fr.at = "examine" ->
           [fr EXCEPT !.Passed = @ /\ v, !.at = "terminator"]
      [] fr.kind = "traverseBasicBlock" /\ fr.at = "successors" ->
           [fr EXCEPT !.Passed = @ /\ v, !.i = @ + 1]
      [] fr.kind = "examineBlock" ->
           [fr EXCEPT !.Passed = @ /\ v, !.i = @ + 1]

\* return v; from the invocation on top of the stack
Return(v) ==
    /\ ret' = <<v>>
    /\ IF Tail(stack) = <<>>
       THEN /\ stack' = <<>>
            /\ pc' = "returned"
       ELSE /\ stack' = <<Resume(Head(Tail(stack)), v)>> \o Tail(Tail(stack))
            /\ pc' = pc

\* Replace the frame on top, or call: push a frame above the changed top.
SetTop(fr) == stack' = <<fr>> \o Tail(stack)
Invoke(callee, fr) == stack' = <<callee, fr>> \o Tail(stack)

Init ==
    /\ M \in Modules
    /\ source = SourceFunction
    /\ starts = <<>>
    /\ pc = "runOnModule"
    /\ stack = <<>>
    /\ BasicBlockPtrSet = {}
    /\ FuncPtrSet = {}
    /\ FunctionChain = <<>>
    /\ errs = <<>>
    /\ ret = <<>>
    /\ called = {}

\* ------------------------------------------------------------------------
\* runOnModule

\* The pass manager calls runOnModule on the pass object, the first time or
\* again once the previous call has returned.
Callable ==
    /\ pc \in {"runOnModule", "returned"}
    /\ Len(starts) < MaxRuns

\* RunOnModule_Found that walks the entry block of Source itself, in place of
\* the call of traverseFunction.
RunOnModule_Found_WalksBody ==
    /\ Callable
    /\ getFunction(source) # NullFunction
    /\ stack' = <<Frame("traverseBasicBlock", getFunction(source), 1)>>
    /\ pc' = "traversing"
    /\ starts' = Append(starts, Len(errs))
    /\ UNCHANGED <<M, source, BasicBlockPtrSet, FuncPtrSet, FunctionChain, errs,
                   ret, called>>

RunOnModule_Found ==
    /\ Callable
    /\ getFunction(source) # NullFunction
    /\ stack' = <<Frame("traverseFunction", getFunction(source), 0)>>
    /\ pc' = "traversing"
    /\ starts' = Append(starts, Len(errs))
    /\ UNCHANGED <<M, source, BasicBlockPtrSet, FuncPtrSet, FunctionChain, errs,
                   ret, called>>

\* RunOnModule_Absent without the test of Source: traverseFunction is handed
\* the null pointer.
RunOnModule_Absent_NoNullCheck ==
    /\ Callable
    /\ getFunction(source) = NullFunction
    /\ stack' = <<Frame("traverseFunction", getFunction(source), 0)>>
    /\ pc' = "traversing"
    /\ starts' = Append(starts, Len(errs))
    /\ UNCHANGED <<M, source, BasicBlockPtrSet, FuncPtrSet, FunctionChain, errs,
                   ret, called>>

RunOnModule_Absent ==
    /\ Callable
    /\ getFunction(source) = NullFunction
    /\ pc' = "returned"
    /\ starts' = Append(starts, Len(errs))
    /\ UNCHANGED <<M, source, stack, BasicBlockPtrSet, FuncPtrSet, FunctionChain,
                   errs, ret, called>>

\* ------------------------------------------------------------------------
\* traverseFunction

\* TF_Visited without the return: a function found in FuncPtrSet is pushed
\* and traversed again.
TF_Visited_Reenters ==
    /\ Running("traverseFunction", "entry")
    /\ top.F \in FuncPtrSet
    /\ FunctionChain' = Append(FunctionChain, DisplayName(top.F))
    /\ SetTop([top EXCEPT !.Name = DisplayName(top.F), !.at = "pushed"])
    /\ UNCHANGED <<M, source, starts, pc, BasicBlockPtrSet, FuncPtrSet, errs,
                   ret, called>>

\* if (FuncPtrSet.count(F) != 0) return Passed;
TF_Visited ==
    /\ Running("traverseFunction", "entry")
    /\ top.F \in FuncPtrSet
    /\ Return(top.Passed)
    /\ UNCHANGED <<M, source, starts, BasicBlockPtrSet, FuncPtrSet, FunctionChain, errs, called>>

\* TF_Sink without the test of SinkFunctionSet: the sink is pushed like any
\* other function.
TF_Sink_Entered ==
    /\ Running("traverseFunction", "entry")
    /\ top.F \notin FuncPtrSet
    /\ DisplayName(top.F) \in SinkFunctionSet
    /\ FunctionChain' = Append(FunctionChain, DisplayName(top.F))
    /\ SetTop([top EXCEPT !.Name = DisplayName(top.F), !.at = "pushed"])
    /\ UNCHANGED <<M, source, starts, pc, BasicBlockPtrSet, FuncPtrSet, errs, ret, called>>

\* if (SinkFunctionSet.count(Name)) return Passed;
TF_Sink ==
    /\ Running("traverseFunction", "entry")
    /\ top.F \notin FuncPtrSet
    /\ DisplayName(top.F) \in SinkFunctionSet
    /\ Return(top.Passed)
    /\ UNCHANGED <<M, source, starts, BasicBlockPtrSet, FuncPtrSet, FunctionChain, errs, called>>

\* FunctionChain.push_back(Name);
TF_Push ==
    /\ Running("traverseFunction", "entry")
    /\ top.F \notin FuncPtrSet
    /\ DisplayName(top.F) \notin SinkFunctionSet
    /\ FunctionChain' = Append(FunctionChain, DisplayName(top.F))
    /\ SetTop([top EXCEPT !.Name = DisplayName(top.F), !.at = "pushed"])
    /\ UNCHANGED <<M, source, starts, pc, BasicBlockPtrSet, FuncPtrSet, errs, ret, called>>

\* TF_BlackList with warnOnCallChain called twice.
TF_BlackList_WarnsTwice ==
    /\ Running("traverseFunction", "pushed")
    /\ top.Name \in BlackListSet
    /\ errs' = Append(Append(errs, WarningLine(FunctionChain)),
                      WarningLine(FunctionChain))
    /\ SetTop([top EXCEPT !.Passed = FALSE, !.at = "warned"])
    /\ UNCHANGED <<M, source, starts, pc, BasicBlockPtrSet, FuncPtrSet,
                   FunctionChain, ret, called>>

\* TF_BlackList without Passed = false.
TF_BlackList_KeepsPassed ==
    /\ Running("traverseFunction", "pushed")
    /\ top.Name \in BlackListSet
    /\ errs' = Append(errs, WarningLine(FunctionChain))
    /\ SetTop([top EXCEPT !.at = "warned"])
    /\ UNCHANGED <<M, source, starts, pc, BasicBlockPtrSet, FuncPtrSet, FunctionChain, ret,
                   called>>

\* if (BlackListSet.count(Name)) { Passed = false; warnOnCallChain();
TF_BlackList ==
    /\ Running("traverseFunction", "pushed")
    /\ top.Name \in BlackListSet
    /\ errs' = Append(errs, WarningLine(FunctionChain))
    /\ SetTop([top EXCEPT !.Passed = FALSE, !.at = "warned"])
    /\ UNCHANGED <<M, source, starts, pc, BasicBlockPtrSet, FuncPtrSet, FunctionChain, ret,
                   called>>

\* TF_BlackListReturn without FunctionChain.pop_back().
TF_BlackListReturn_NoPop ==
    /\ Running("traverseFunction", "warned")
    /\ Return(top.Passed)
    /\ UNCHANGED <<M, source, starts, BasicBlockPtrSet, FuncPtrSet, FunctionChain, errs, called>>

\* TF_BlackListReturn without the return: after the warning the function is
\* inserted and its body walked like any other.
TF_BlackListReturn_FallsThrough ==
    /\ Running("traverseFunction", "warned")
    /\ FunctionChain' = SubSeq(FunctionChain, 1, Len(FunctionChain) - 1)
    /\ FuncPtrSet' = FuncPtrSet \cup {top.F}
    /\ IF Len(M[top.F]) # 0
       THEN Invoke([kind |-> "traverseBasicBlock", F |-> top.F, B |-> 1,
                    at |-> "entry", i |-> 1, Passed |-> TRUE, Name |-> NullName,
                    chain0 |-> FunctionChain', errs0 |-> Len(errs),
                    funcs0 |-> FuncPtrSet],
                   [top EXCEPT !.at = "body"])
       ELSE SetTop([top EXCEPT !.at = "leave"])
    /\ UNCHANGED <<M, source, starts, pc, BasicBlockPtrSet, errs, ret, called>>

\*   FunctionChain.pop_back(); return Passed; }
TF_BlackListReturn ==
    /\ Running("traverseFunction", "warned")
    /\ FunctionChain' = SubSeq(FunctionChain, 1, Len(FunctionChain) - 1)
    /\ Return(top.Passed)
    /\ UNCHANGED <<M, source, starts, BasicBlockPtrSet, FuncPtrSet, errs, called>>

\* TF_Descend without FuncPtrSet.insert(F).
TF_Descend_NoInsert ==
    /\ Running("traverseFunction", "pushed")
    /\ top.Name \notin BlackListSet
    /\ size(top.F) # 0
    /\ Invoke(Frame("traverseBasicBlock", top.F, 1), [top EXCEPT !.at = "body"])
    /\ UNCHANGED <<M, source, starts, pc, BasicBlockPtrSet, FuncPtrSet,
                   FunctionChain, errs, ret, called>>

\* FuncPtrSet.insert(F); if (F->size()) Passed &= traverseBasicBlock(entry);
TF_Descend ==
    /\ Running("traverseFunction", "pushed")
    /\ top.Name \notin BlackListSet
    /\ size(top.F) # 0
    /\ FuncPtrSet' = FuncPtrSet \cup {top.F}
    /\ Invoke(Frame("traverseBasicBlock", top.F, 1), [top EXCEPT !.at = "body"])
    /\ UNCHANGED <<M, source, starts, pc, BasicBlockPtrSet, FunctionChain, errs, ret, called>>

\* FuncPtrSet.insert(F); with F->size() == 0
TF_NoBody ==
    /\ Running("traverseFunction", "pushed")
    /\ top.Name \notin BlackListSet
    /\ size(top.F) = 0
    /\ FuncPtrSet' = FuncPtrSet \cup {top.F}
    /\ SetTop([top EXCEPT !.at = "leave"])
    /\ UNCHANGED <<M, source, starts, pc, BasicBlockPtrSet, FunctionChain, errs, ret, called>>

\* TF_Return without FunctionChain.pop_back().
TF_Return_NoPop ==
    /\ Running("traverseFunction", "leave")
    /\ Return(top.Passed)
    /\ UNCHANGED <<M, source, starts, BasicBlockPtrSet, FuncPtrSet, FunctionChain, errs, called>>

\* TF_Return that takes the function out of FuncPtrSet again.
TF_Return_Unmarks ==
    /\ Running("traverseFunction", "leave")
    /\ FunctionChain' = SubSeq(FunctionChain, 1, Len(FunctionChain) - 1)
    /\ FuncPtrSet' = FuncPtrSet \ {top.F}
    /\ Return(top.Passed)
    /\ UNCHANGED <<M, source, starts, BasicBlockPtrSet, errs, called>>

\* FunctionChain.pop_back(); return Passed;
TF_Return ==
    /\ Running("traverseFunction", "leave")
    /\ FunctionChain' = SubSeq(FunctionChain, 1, Len(FunctionChain) - 1)
    /\ Return(top.Passed)
    /\ UNCHANGED <<M, source, starts, BasicBlockPtrSet, FuncPtrSet, errs, called>>

\* ------------------------------------------------------------------------
\* traverseBasicBlock

theBlock(fr) == M[fr.F][fr.B]

\* TB_Visited without the return: a block found in BasicBlockPtrSet is
\* examined again.
TB_Visited_Rescans ==
    /\ Running("traverseBasicBlock", "entry")
    /\ <<top.F, top.B>> \in BasicBlockPtrSet
    /\ Invoke(Frame("examineBlock", top.F, top.B), [top EXCEPT !.at = "examine"])
    /\ UNCHANGED <<M, source, starts, pc, BasicBlockPtrSet, FuncPtrSet,
                   FunctionChain, errs, ret, called>>

\* if (BasicBlockPtrSet.count(&Block) != 0) return Passed;
TB_Visited ==
    /\ Running("traverseBasicBlock", "entry")
    /\ <<top.F, top.B>> \in BasicBlockPtrSet
    /\ Return(top.Passed)
    /\ UNCHANGED <<M, source, starts, BasicBlockPtrSet, FuncPtrSet, FunctionChain, errs, called>>

\* BasicBlockPtrSet.insert(&Block); Passed &= examineBlock(Block);
TB_Examine ==
    /\ Running("traverseBasicBlock", "entry")
    /\ <<top.F, top.B>> \notin BasicBlockPtrSet
    /\ BasicBlockPtrSet' = BasicBlockPtrSet \cup {<<top.F, top.B>>}
    /\ Invoke(Frame("examineBlock", top.F, top.B), [top EXCEPT !.at = "examine"])
    /\ UNCHANGED <<M, source, starts, pc, FuncPtrSet, FunctionChain, errs, ret, called>>

\* if (!TermInst) return Passed;
TB_NoTerminator ==
    /\ Running("traverseBasicBlock", "terminator")
    /\ ~theBlock(top).term
    /\ Return(top.Passed)
    /\ UNCHANGED <<M, source, starts, BasicBlockPtrSet, FuncPtrSet, FunctionChain, errs, called>>

\* TB_Terminator with the loop over the successors started one too far.
TB_Terminator_SkipsFirst ==
    /\ Running("traverseBasicBlock", "terminator")
    /\ theBlock(top).term
    /\ SetTop([top EXCEPT !.at = "successors", !.i = 2])
    /\ UNCHANGED <<M, source, starts, pc, BasicBlockPtrSet, FuncPtrSet, FunctionChain, errs, ret,
                   called>>

\* a terminator: enter the loop over its successors
TB_Terminator ==
    /\ Running("traverseBasicBlock", "terminator")
    /\ theBlock(top).term
    /\ SetTop([top EXCEPT !.at = "successors", !.i = 1])
    /\ UNCHANGED <<M, source, starts, pc, BasicBlockPtrSet, FuncPtrSet, FunctionChain, errs, ret,
                   called>>

\* TB_Successor that takes the successors from the last to the first.
TB_Successor_Reversed ==
    /\ Running("traverseBasicBlock", "successors")
    /\ top.i <= Len(theBlock(top).succs)
    /\ theBlock(top).succs[top.i] # NullBlock
    /\ Invoke(Frame("traverseBasicBlock", top.F,
                    theBlock(top).succs[Len(theBlock(top).succs) - top.i + 1]), top)
    /\ UNCHANGED <<M, source, starts, pc, BasicBlockPtrSet, FuncPtrSet, FunctionChain, errs, ret,
                   called>>

\* if (SuccBlock) Passed &= traverseBasicBlock(*SuccBlock);
TB_Successor ==
    /\ Running("traverseBasicBlock", "successors")
    /\ top.i <= Len(theBlock(top).succs)
    /\ theBlock(top).succs[top.i] # NullBlock
    /\ Invoke(Frame("traverseBasicBlock", top.F, theBlock(top).succs[top.i]), top)
    /\ UNCHANGED <<M, source, starts, pc, BasicBlockPtrSet, FuncPtrSet, FunctionChain, errs, ret,
                   called>>

\* TB_NullSuccessor with the null successor tested again instead of skipped.
TB_NullSuccessor_NoAdvance ==
    /\ Running("traverseBasicBlock", "successors")
    /\ top.i <= Len(theBlock(top).succs)
    /\ theBlock(top).succs[top.i] = NullBlock
    /\ SetTop(top)
    /\ UNCHANGED <<M, source, starts, pc, BasicBlockPtrSet, FuncPtrSet, FunctionChain, errs, ret,
                   called>>

\* a null successor is skipped
TB_NullSuccessor ==
    /\ Running("traverseBasicBlock", "successors")
    /\ top.i <= Len(theBlock(top).succs)
    /\ theBlock(top).succs[top.i] = NullBlock
    /\ SetTop([top EXCEPT !.i = @ + 1])
    /\ UNCHANGED <<M, source, starts, pc, BasicBlockPtrSet, FuncPtrSet, FunctionChain, errs, ret,
                   called>>

\* return Passed; after the last successor
TB_Return ==
    /\ Running("traverseBasicBlock", "successors")
    /\ top.i > Len(theBlock(top).succs)
    /\ Return(top.Passed)
    /\ UNCHANGED <<M, source, starts, BasicBlockPtrSet, FuncPtrSet, FunctionChain, errs, called>>

\* ------------------------------------------------------------------------
\* examineBlock

theInst(fr) == theBlock(fr).insts[fr.i]

\* if (!CInst) continue;
EB_NotCall ==
    /\ Running("examineBlock", "entry")
    /\ top.i <= Len(theBlock(top).insts)
    /\ theInst(top).op # "call"
    /\ SetTop([top EXCEPT !.i = @ + 1])
    /\ UNCHANGED <<M, source, starts, pc, BasicBlockPtrSet, FuncPtrSet, FunctionChain, errs, ret,
                   called>>

\* if (!F) continue;
EB_Indirect ==
    /\ Running("examineBlock", "entry")
    /\ top.i <= Len(theBlock(top).insts)
    /\ theInst(top).op = "call"
    /\ theInst(top).callee = NullFunction
    /\ SetTop([top EXCEPT !.i = @ + 1])
    /\ UNCHANGED <<M, source, starts, pc, BasicBlockPtrSet, FuncPtrSet, FunctionChain, errs, ret,
                   called>>

\* EB_Call with Passed = Passed && traverseFunction(F): once Passed is
\* false the callee is not traversed.
EB_Call_ShortCircuit ==
    /\ Running("examineBlock", "entry")
    /\ top.i <= Len(theBlock(top).insts)
    /\ theInst(top).op = "call"
    /\ theInst(top).callee # NullFunction
    /\ IF top.Passed
       THEN /\ Invoke(Frame("traverseFunction", theInst(top).callee, 0), top)
            /\ called' = called \cup {<<top.F, top.B, top.i>>}
       ELSE /\ SetTop([top EXCEPT !.i = @ + 1])
            /\ called' = called
    /\ UNCHANGED <<M, source, starts, pc, BasicBlockPtrSet, FuncPtrSet, FunctionChain, errs, ret>>

\* Passed &= traverseFunction(F);
EB_Call ==
    /\ Running("examineBlock", "entry")
    /\ top.i <= Len(theBlock(top).insts)
    /\ theInst(top).op = "call"
    /\ theInst(top).callee # NullFunction
    /\ Invoke(Frame("traverseFunction", theInst(top).callee, 0), top)
    /\ called' = called \cup {<<top.F, top.B, top.i>>}
    /\ UNCHANGED <<M, source, starts, pc, BasicBlockPtrSet, FuncPtrSet, FunctionChain, errs, ret>>

\* return Passed; after the last instruction
EB_Return ==
    /\ Running("examineBlock", "entry")
    /\ top.i > Len(theBlock(top).insts)
    /\ Return(top.Passed)
    /\ UNCHANGED <<M, source, starts, BasicBlockPtrSet, FuncPtrSet, FunctionChain, errs, called>>

\* ------------------------------------------------------------------------

Next ==
    \/ RunOnModule_Found
    \/ RunOnModule_Absent
    \/ TF_Visited
    \/ TF_Sink
    \/ TF_Push
    \/ TF_BlackList
    \/ TF_BlackListReturn
    \/ TF_Descend
    \/ TF_NoBody
    \/ TF_Return
    \/ TB_Visited
    \/ TB_Examine
    \/ TB_NoTerminator
    \/ TB_Terminator
    \/ TB_Successor
    \/ TB_NullSuccessor
    \/ TB_Return
    \/ EB_NotCall
    \/ EB_Indirect
    \/ EB_Call
    \/ EB_Return

Spec == Init /\ [][Next]_vars

\* The pass with SourceFunction set to the name of a black-listed function or
\* of a sink as well.
SourceNames == {SourceFunction, "mutex_acquire", "panic"}

InitAnySource ==
    /\ M \in Modules
    /\ source \in SourceNames
    /\ starts = <<>>
    /\ pc = "runOnModule"
    /\ stack = <<>>
    /\ BasicBlockPtrSet = {}
    /\ FuncPtrSet = {}
    /\ FunctionChain = <<>>
    /\ errs = <<>>
    /\ ret = <<>>
    /\ called = {}

SpecAnySource == InitAnySource /\ [][Next]_vars

\* The pass runs to completion: a single thread that is never suspended.
FairSpec == Spec /\ WF_vars(Next)

\* ------------------------------------------------------------------------
\* The graphs of the module, read off M without running the pass

\* Blocks of F that the entry block reaches through non-null successors.
RECURSIVE BlockClosure(_, _)
BlockClosure(F, Bs) ==
    LET more == Bs \cup {M[F][b].succs[k] :
                            <<b, k>> \in {q \in Bs \X (1..2) :
                                            /\ M[F][q[1]].term
                                            /\ q[2] <= Len(M[F][q[1]].succs)
                                            /\ M[F][q[1]].succs[q[2]] # NullBlock}}
    IN  IF more = Bs THEN Bs ELSE BlockClosure(F, more)

ReachableBlocks(F) == IF Len(M[F]) = 0 THEN {} ELSE BlockClosure(F, {1})

\* Indices of the direct calls of block B of F.
DirectCalls(F, B) ==
    {i \in 1..Len(M[F][B].insts) :
        M[F][B].insts[i].op = "call" /\ M[F][B].insts[i].callee # NullFunction}

\* Targets of the direct calls in the reachable blocks of F.
Callees(F) ==
    UNION {{M[F][B].insts[i].callee : i \in DirectCalls(F, B)} :
              B \in ReachableBlocks(F)}

\* A chain is continued through F when F is no sink, not black-listed and
\* not in V.
Interior(F, V) ==
    /\ DisplayName(F) \notin SinkFunctionSet \cup BlackListSet
    /\ F \notin V

RECURSIVE CallClosure(_, _)
CallClosure(R, V) ==
    LET more == R \cup UNION {Callees(G) : G \in {H \in R : Interior(H, V)}}
    IN  IF more = R THEN R ELSE CallClosure(more, V)

\* The black-listed functions at the end of a chain of direct calls from F
\* through functions that are no sinks, not black-listed and not in V.
ViolationsFrom(F, V) ==
    {X \in CallClosure({F}, V) : DisplayName(X) \in BlackListSet}

\* ------------------------------------------------------------------------
\* Reading the output and the stack

Last(s) == s[Len(s)]

\* The call chain printed in a line of errs.
ChainOf(line) == Tail(line)

Reports == {ChainOf(errs[k]) : k \in 1..Len(errs)}

\* The step returns from the invocation on top of the stack.
Returns(kind) ==
    /\ stack # <<>>
    /\ top.kind = kind
    /\ Len(stack') = Len(stack) - 1

\* Display names of the invocations of traverseFunction that have pushed
\* their name and not popped it, outermost first.
RECURSIVE PushedNames(_)
PushedNames(stk) ==
    IF stk = <<>> THEN <<>>
    ELSE PushedNames(Tail(stk)) \o
         (IF Head(stk).kind = "traverseFunction" /\ Head(stk).at # "entry"
          THEN <<DisplayName(Head(stk).F)>> ELSE <<>>)

\* G is the target of a direct call in some block of F.
CallsDirectly(F, G) ==
    \E B \in 1..Len(M[F]) : \E i \in DirectCalls(F, B) : M[F][B].insts[i].callee = G

\* ------------------------------------------------------------------------
\* Claims

\* C1: whatever the call graph and the control-flow graphs, cycles included,
\* every run started by runOnModule ends: the outermost traverseFunction
\* returns.
C1_Terminates == (pc # "returned") ~> (pc = "returned")

\* A finished run that followed a call from foo back to the source function
\* and walked the loop between the two blocks of the source function.
C1_Witness ==
    /\ pc = "returned"
    /\ \E i \in 1..MaxItems : /\ <<"foo", 1, i>> \in called
                              /\ M["foo"][1].insts[i] = Call(SourceFunction)
    /\ <<SourceFunction, 2>> \in BasicBlockPtrSet
    /\ M[SourceFunction][2].succs = <<1>>

\* C2: when the run has finished, every black-listed function at the end of
\* a chain of direct calls from the source function, through reachable blocks
\* of functions that are neither sinks nor black-listed, ends some report.
C2_Complete ==
    (pc = "returned" /\ SourceFunction \in DOMAIN M) =>
        \A X \in ViolationsFrom(SourceFunction, {}) :
            \E c \in Reports : Last(c) = DisplayName(X)

\* A finished run that reported a black-listed function called from the
\* second block of the source function and one called from foo.
C2_Witness ==
    /\ pc = "returned"
    /\ <<SourceFunction, "mutex_acquire">> \in Reports
    /\ <<SourceFunction, "foo", "mutex_acquire">> \in Reports
    /\ \E i \in DirectCalls(SourceFunction, 2) :
          M[SourceFunction][2].insts[i] = Call("mutex_acquire")

\* C3: the call chain is, at every moment, the display names of the
\* invocations of traverseFunction that are between their push and their pop,
\* outermost first; every report starts with the source function, ends with a
\* black-listed name, and each of its names calls the next one directly.
C3_ChainCorrect ==
    /\ FunctionChain = PushedNames(stack)
    /\ \A c \in Reports :
          /\ c[1] = DisplayName(SourceFunction)
          /\ Last(c) \in BlackListSet
          /\ \A k \in 1..(Len(c) - 1) :
                \E F \in DOMAIN M, G \in DOMAIN M :
                    /\ DisplayName(F) = c[k]
                    /\ DisplayName(G) = c[k + 1]
                    /\ CallsDirectly(F, G)

\* A report is being written for a chain of three functions.
C3_Witness ==
    /\ Running("traverseFunction", "warned")
    /\ FunctionChain = <<SourceFunction, "panic()", "mutex_acquire">>
    /\ Last(errs) = WarningLine(FunctionChain)

\* C4: every invocation of traverseFunction returns with the call chain it
\* was entered with, whichever way it leaves, and the chain is empty when the
\* run has finished.
C4_StackBalance ==
    [][/\ Returns("traverseFunction") => FunctionChain' = top.chain0
       /\ pc' = "returned" => FunctionChain' = <<>>]_vars

\* A finished run in which invocations returned on four paths: a body, a
\* black-listed function, a function already visited and a sink.
C4_Witness ==
    /\ pc = "returned"
    /\ FunctionChain = <<>>
    /\ errs # <<>>
    /\ \E i \in 1..MaxItems, j \in 1..MaxItems, k \in 1..MaxItems :
          /\ i < j
          /\ {<<SourceFunction, 1, i>>, <<SourceFunction, 1, j>>,
              <<SourceFunction, 1, k>>} \subseteq called
          /\ M[SourceFunction][1].insts[i] = Call("_Z5panicv")
          /\ M[SourceFunction][1].insts[j] = Call("_Z5panicv")
          /\ M[SourceFunction][1].insts[k] = Call("panic")

\* C5: an invocation of traverseFunction on a function with a sink's name
\* returns true at once and changes neither the call chain, the visited sets
\* nor the output; no block of such a function is ever walked, and every
\* report ends in a function that a chain of calls through no sink and no
\* black-listed function reaches from the source function.
C5_SinkAbsorbs ==
    [][/\ (Running("traverseFunction", "entry")
             /\ DisplayName(top.F) \in SinkFunctionSet) =>
            /\ Returns("traverseFunction")
            /\ ret' = <<TRUE>>
            /\ UNCHANGED <<FunctionChain, FuncPtrSet, BasicBlockPtrSet, errs,
                           called>>
       /\ \A F \in FuncPtrSet' : DisplayName(F) \notin SinkFunctionSet
       /\ \A b \in BasicBlockPtrSet' : DisplayName(b[1]) \notin SinkFunctionSet
       /\ (errs' # errs) =>
            \E X \in ViolationsFrom(SourceFunction, {}) :
                DisplayName(X) = Last(Last(errs'))]_vars

\* A finished run in which the source function called panic, whose block
\* was not walked, and the only report is one through the C++ panic().
C5_Witness ==
    /\ pc = "returned"
    /\ SourceFunction \in DOMAIN M
    /\ \E i \in DirectCalls(SourceFunction, 1) :
          /\ M[SourceFunction][1].insts[i] = Call("panic")
          /\ <<SourceFunction, 1, i>> \in called
    /\ <<"panic", 1>> \notin BasicBlockPtrSet
    /\ Reports = {<<SourceFunction, "panic()", "mutex_acquire">>}

\* C6: an invocation of traverseFunction on a black-listed function calls
\* nothing, and returns false having written exactly one report, which ends in
\* that function's name; no block of a black-listed function is ever walked
\* and no report holds a black-listed name before its last position.
C6_BlackListShortCircuit ==
    [][/\ (Returns("traverseFunction") /\ DisplayName(top.F) \in BlackListSet) =>
            /\ ret' = <<FALSE>>
            /\ Len(errs') = top.errs0 + 1
            /\ Last(Last(errs')) = DisplayName(top.F)
       /\ \A k \in 2..Len(stack') :
            ~(/\ stack'[k].kind = "traverseFunction"
              /\ DisplayName(stack'[k].F) \in BlackListSet)
       /\ \A b \in BasicBlockPtrSet' : DisplayName(b[1]) \notin BlackListSet
       /\ \A k \in 1..Len(errs') :
            \A j \in 1..(Len(ChainOf(errs'[k])) - 1) :
                ChainOf(errs'[k])[j] \notin BlackListSet]_vars

\* The invocation on mutex_acquire, called from foo, has just returned false.
C6_Witness ==
    /\ Running("examineBlock", "entry")
    /\ top.F = "foo"
    /\ top.i > 1
    /\ theBlock(top).insts[top.i - 1] = Call("mutex_acquire")
    /\ ret = <<FALSE>>
    /\ ~top.Passed
    /\ Last(errs) = WarningLine(<<SourceFunction, "foo", "mutex_acquire">>)

\* C7: a report does not stop the run: when the run has finished, every
\* direct call of every walked block was handed to traverseFunction, every
\* non-null successor of a walked block was walked, and there is one report
\* for each direct call to a black-listed function in a walked block.
C7_RunContinues ==
    pc = "returned" =>
        /\ \A b \in BasicBlockPtrSet :
              /\ \A i \in DirectCalls(b[1], b[2]) : <<b[1], b[2], i>> \in called
              /\ M[b[1]][b[2]].term =>
                    \A k \in 1..Len(M[b[1]][b[2]].succs) :
                        \/ M[b[1]][b[2]].succs[k] = NullBlock
                        \/ <<b[1], M[b[1]][b[2]].succs[k]>> \in BasicBlockPtrSet
        /\ Len(errs) =
              Cardinality(UNION {{<<b, i>> :
                                    i \in {k \in DirectCalls(b[1], b[2]) :
                                             DisplayName(M[b[1]][b[2]].insts[k].callee)
                                                 \in BlackListSet}} :
                                 b \in BasicBlockPtrSet})

\* The source function called foo and the C++ panic(), both of which take a
\* mutex: the run has finished with one report for each chain.
C7_Witness ==
    /\ pc = "returned"
    /\ errs = <<WarningLine(<<SourceFunction, "foo", "mutex_acquire">>),
                WarningLine(<<SourceFunction, "panic()", "mutex_acquire">>)>>

\* Blocks of F that the entry block reaches without passing through block X.
RECURSIVE BlockClosureAvoiding(_, _, _)
BlockClosureAvoiding(F, Bs, X) ==
    LET more == Bs \cup ({M[F][b].succs[k] :
                            <<b, k>> \in {q \in Bs \X (1..2) :
                                            /\ M[F][q[1]].term
                                            /\ q[2] <= Len(M[F][q[1]].succs)
                                            /\ M[F][q[1]].succs[q[2]] # NullBlock}}
                         \ {X})
    IN  IF more = Bs THEN Bs ELSE BlockClosureAvoiding(F, more, X)

\* Blocks of F, other than X, that are reached only through X.
ReachedOnlyThrough(F, X) ==
    (ReachableBlocks(F) \ {X}) \ BlockClosureAvoiding(F, {1} \ {X}, X)

\* The call sites that follow call site <<F, B, i>> in control flow: the later
\* instructions of B and the instructions of the blocks reached only through B.
SitesAfter(F, B, i) ==
    {<<F, B, j>> : j \in {k \in DirectCalls(F, B) : k > i}}
      \cup UNION {{<<F, C, j>> : j \in DirectCalls(F, C)} :
                    C \in ReachedOnlyThrough(F, B)}

\* C8: once the scan of a block has met a call to a sink function, no call
\* site that follows that call in control flow is explored.
C8_NothingPastSink ==
    \A s \in called :
        DisplayName(M[s[1]][s[2]].insts[s[3]].callee) \in SinkFunctionSet =>
            SitesAfter(s[1], s[2], s[3]) \cap called = {}

\* C9: an invocation of traverseFunction, traverseBasicBlock or examineBlock
\* returns false exactly when a report was written between its entry and its
\* return; so the visit of the source function returns false exactly when the
\* run wrote a report.
C9_OutcomeIffReport ==
    [][/\ \A kind \in {"traverseFunction", "traverseBasicBlock", "examineBlock"} :
            Returns(kind) => (ret' = <<FALSE>> <=> Len(errs') > top.errs0)
       /\ (pc = "traversing" /\ pc' = "returned") =>
            (ret' = <<FALSE>> <=> Len(errs') > Last(starts))]_vars

\* The walk of the entry block of the source function returns false after a
\* scan in which a call that reported was followed by a call that did not.
C9_Witness ==
    /\ Running("traverseBasicBlock", "terminator")
    /\ top.F = SourceFunction
    /\ top.B = 1
    /\ ~top.Passed
    /\ ret = <<FALSE>>
    /\ Len(theBlock(top).insts) = 2
    /\ theBlock(top).insts[1] = Call("mutex_acquire")
    /\ theBlock(top).insts[2] = Call("foo")
    /\ Len(errs) = 1

\* C10 as stated: an invocation of traverseFunction(F) returns false whenever
\* a black-listed function is at the end of a chain of direct calls from F
\* through no sink, whatever was visited before.
C10_CleanOnlyIfAllClean ==
    [][(Returns("traverseFunction") /\ ViolationsFrom(top.F, {}) # {}) =>
            ret' = <<FALSE>>]_vars

\* C10 amended: an invocation of traverseFunction(F) returns false whenever a
\* black-listed function is at the end of a chain of direct calls from F, in
\* reachable blocks, through functions that are no sinks, not black-listed and
\* not in FuncPtrSet when the invocation began.
C10_CleanOnlyIfAllUnvisitedClean ==
    [][(Returns("traverseFunction") /\ ViolationsFrom(top.F, top.funcs0) # {}) =>
            ret' = <<FALSE>>]_vars

\* The invocation on foo has just returned false to the source function: foo
\* called the source function, which was visited already, and then took a
\* mutex.
C10_Witness ==
    /\ Running("examineBlock", "entry")
    /\ top.F = SourceFunction
    /\ top.i > 1
    /\ theBlock(top).insts[top.i - 1] = Call("foo")
    /\ ret = <<FALSE>>
    /\ Len(M["foo"]) = 1
    /\ M["foo"][1].insts = <<Call(SourceFunction), Call("mutex_acquire")>>
    /\ <<"foo", 1>> \in BasicBlockPtrSet

\* C11: when the module holds no function with the source function's name,
\* runOnModule returns without traversing: nothing is ever on the stack, no
\* report is written, and the visited sets and the call chain stay empty.
C11_AbsentSourceNoOp ==
    getFunction(source) = NullFunction =>
        /\ pc \in {"runOnModule", "returned"}
        /\ stack = <<>>
        /\ errs = <<>>
        /\ FuncPtrSet = {}
        /\ BasicBlockPtrSet = {}
        /\ FunctionChain = <<>>
        /\ called = {}

\* runOnModule has returned on a module without the source function in which
\* foo takes a mutex.
C11_Witness ==
    /\ getFunction(source) = NullFunction
    /\ pc = "returned"
    /\ starts # <<>>
    /\ Len(M["foo"]) = 1
    /\ M["foo"][1].insts[1] = Call("mutex_acquire")

\* The lines written by the k-th call of runOnModule.
RunReports(k) ==
    SubSeq(errs, starts[k] + 1,
           IF k < Len(starts) THEN starts[k + 1] ELSE Len(errs))

\* C12: a second run of the pass on the same module writes the same
\* sequence of reports as the first: whenever runOnModule has returned, all
\* of its calls so far have written the same lines.
C12_RunsAgree ==
    pc = "returned" =>
        \A j \in 1..Len(starts), k \in 1..Len(starts) :
            RunReports(j) = RunReports(k)

\* C13 as stated: within one run no two reports carry the same call chain.
C13_NoTwoReportsAlike ==
    \A r \in 1..Len(starts) :
        \A i \in 1..Len(RunReports(r)), j \in 1..Len(RunReports(r)) :
            i # j => RunReports(r)[i] # RunReports(r)[j]

\* The number of lines of errs that carry chain c.
CountOf(c) == Cardinality({k \in 1..Len(errs) : ChainOf(errs[k]) = c})

\* The traversed call sites that lie in the function named next to last in c
\* and call the function named last in c.
SitesOf(c) ==
    {s \in called :
        /\ DisplayName(s[1]) = c[Len(c) - 1]
        /\ DisplayName(M[s[1]][s[2]].insts[s[3]].callee) = Last(c)}

\* C13 amended: there is one report for each traversed direct call to a
\* black-listed function, so a chain is reported as many times as the function
\* named next to last in it holds traversed calls to the function named last:
\* never more often, and exactly as often once runOnModule has returned.
C13_OneReportPerCall ==
    \A c \in Reports :
        /\ Len(c) >= 2
        /\ CountOf(c) <= Cardinality(SitesOf(c))
        /\ pc = "returned" => CountOf(c) = Cardinality(SitesOf(c))

\* The entry block of the source function calls mutex_acquire twice: the run
\* has finished with the same chain reported twice.
C13_Witness ==
    /\ pc = "returned"
    /\ errs = <<WarningLine(<<SourceFunction, "mutex_acquire">>),
                WarningLine(<<SourceFunction, "mutex_acquire">>)>>
    /\ {<<SourceFunction, 1, 1>>, <<SourceFunction, 1, 2>>} \subseteq called

\* C14: a call to a function that is already in FuncPtrSet returns true at
\* once and writes nothing, so what lies below a function is reported only
\* with the chain of its first visit: two reports that hold the same name
\* before their last position agree up to that name.
C14_SinglePath ==
    [][/\ (Running("traverseFunction", "entry") /\ top.F \in FuncPtrSet) =>
            /\ Returns("traverseFunction")
            /\ ret' = <<TRUE>>
            /\ UNCHANGED <<errs, FunctionChain, FuncPtrSet, BasicBlockPtrSet>>
       /\ \A k1 \in 1..Len(errs'), k2 \in 1..Len(errs') :
            \A i \in 1..(Len(ChainOf(errs'[k1])) - 1),
               j \in 1..(Len(ChainOf(errs'[k2])) - 1) :
                ChainOf(errs'[k1])[i] = ChainOf(errs'[k2])[j] =>
                    SubSeq(ChainOf(errs'[k1]), 1, i) = SubSeq(ChainOf(errs'[k2]), 1, j)]_vars

\* foo, which takes a mutex, is called by the C++ panic() and then by the
\* source function itself: the second call has just returned true, and the
\* only report below foo is the one through panic().
C14_Witness ==
    /\ Running("examineBlock", "entry")
    /\ top.F = SourceFunction
    /\ top.B = 1
    /\ top.i = 3
    /\ theBlock(top).insts = <<Call("_Z5panicv"), Call("foo")>>
    /\ ret = <<TRUE>>
    /\ Len(M["foo"]) = 1
    /\ M["foo"][1].insts = <<Call("mutex_acquire")>>
    /\ Reports = {<<SourceFunction, "panic()", "mutex_acquire">>,
                  <<SourceFunction, "panic()", "foo", "mutex_acquire">>}

\* The step calls: it puts a frame of kind callee above a frame of kind caller.
Calls(caller, callee) ==
    /\ stack # <<>>
    /\ top.kind = caller
    /\ Len(stack') = Len(stack) + 1
    /\ Head(stack').kind = callee

\* C15: a function's body is entered only if the function was not in
\* FuncPtrSet, a block is examined only if it was not in BasicBlockPtrSet, and
\* a call instruction is handed to traverseFunction only if it never was
\* before; as nothing leaves these sets, each function body is explored, each
\* block scanned and each call instruction followed at most once.
C15_AtMostOnce ==
    [][/\ Calls("traverseFunction", "traverseBasicBlock") =>
            (top.F \notin FuncPtrSet /\ top.F \in FuncPtrSet')
       /\ Calls("traverseBasicBlock", "examineBlock") =>
            /\ <<top.F, top.B>> \notin BasicBlockPtrSet
            /\ <<top.F, top.B>> \in BasicBlockPtrSet'
       /\ Calls("examineBlock", "traverseFunction") =>
            /\ <<top.F, top.B, top.i>> \notin called
            /\ <<top.F, top.B, top.i>> \in called'
       /\ FuncPtrSet \subseteq FuncPtrSet'
       /\ BasicBlockPtrSet \subseteq BasicBlockPtrSet'
       /\ called \subseteq called']_vars

\* The walk of block 2 of the source function has come back from its
\* successor, block 1, which was walked already; block 1 called foo twice and
\* foo has a body.
C15_Witness ==
    /\ Running("traverseBasicBlock", "successors")
    /\ top.F = SourceFunction
    /\ top.B = 2
    /\ top.i = 2
    /\ theBlock(top).succs = <<1>>
    /\ M[SourceFunction][1].insts = <<Call("foo"), Call("foo")>>
    /\ {<<SourceFunction, 1, 1>>, <<SourceFunction, 1, 2>>} \subseteq called
    /\ <<"foo", 1>> \in BasicBlockPtrSet

\* The invocations of traverseFunction that have pushed their name and not
\* popped it, outermost first.
RECURSIVE PushedFrames(_)
PushedFrames(stk) ==
    IF stk = <<>> THEN <<>>
    ELSE PushedFrames(Tail(stk)) \o
         (IF Head(stk).kind = "traverseFunction" /\ Head(stk).at # "entry"
          THEN <<Head(stk)>> ELSE <<>>)

\* C16 as stated: at every moment every function on the call chain, other
\* than a black-listed one in the last position, is in FuncPtrSet.
C16_ChainVisited ==
    /\ Len(FunctionChain) = Len(PushedFrames(stack))
    /\ \A k \in 1..Len(PushedFrames(stack)) :
          \/ PushedFrames(stack)[k].F \in FuncPtrSet
          \/ /\ k = Len(PushedFrames(stack))
             /\ FunctionChain[k] \in BlackListSet

\* What holds of a call chain in every state: every function on it is in
\* FuncPtrSet, save the last one while its name is still to be tested against
\* BlackListSet or was found there, and no function is on it twice.
ChainVisitedOncePassed(stk) ==
    /\ FunctionChain = [k \in 1..Len(PushedFrames(stk)) |->
                           DisplayName(PushedFrames(stk)[k].F)]
    /\ \A k \in 1..Len(PushedFrames(stk)) :
          \/ PushedFrames(stk)[k].F \in FuncPtrSet
          \/ /\ k = Len(PushedFrames(stk))
             /\ PushedFrames(stk)[k] = Head(stk)
             /\ \/ Head(stk).at = "pushed"
                \/ Head(stk).at = "warned" /\ FunctionChain[k] \in BlackListSet
    /\ \A k \in 1..Len(PushedFrames(stk)), l \in 1..Len(PushedFrames(stk)) :
          PushedFrames(stk)[k].F = PushedFrames(stk)[l].F => k = l

\* C16, amended: every function on the call chain is in FuncPtrSet, except
\* that the last one is missing from it between the push of its name and the
\* test of BlackListSet, and stays out when the test finds it; the body of a
\* function is entered only with the function in FuncPtrSet; a call of a
\* function that is on the chain returns true at once and changes nothing;
\* the chain never holds a function twice.
C16_ChainVisitedOncePassed ==
    [][/\ ChainVisitedOncePassed(stack)
       /\ FunctionChain' = [k \in 1..Len(PushedFrames(stack')) |->
                               DisplayName(PushedFrames(stack')[k].F)]
       /\ \A k \in 1..Len(PushedFrames(stack')), l \in 1..Len(PushedFrames(stack')) :
             PushedFrames(stack')[k].F = PushedFrames(stack')[l].F => k = l
       /\ Calls("traverseFunction", "traverseBasicBlock") => top.F \in FuncPtrSet'
       /\ (/\ Running("traverseFunction", "entry")
           /\ \E k \in 1..Len(PushedFrames(stack)) : PushedFrames(stack)[k].F = top.F) =>
             /\ Returns("traverseFunction")
             /\ ret' = <<TRUE>>
             /\ UNCHANGED <<errs, FunctionChain, FuncPtrSet, BasicBlockPtrSet>>]_vars

\* foo calls itself: the inner call has returned true to the scan of foo's
\* block while foo is still on the chain, and nothing was written.
C16_Witness ==
    /\ Running("examineBlock", "entry")
    /\ top.F = "foo"
    /\ top.i = 2
    /\ theBlock(top).insts[1] = Call("foo")
    /\ ret = <<TRUE>>
    /\ FunctionChain = <<SourceFunction, "foo">>
    /\ {SourceFunction, "foo"} \subseteq FuncPtrSet
    /\ errs = <<>>

\* The function called by the call instruction at a site <<F, B, i>>.
CalleeAt(site) == M[site[1]][site[2]].insts[site[3]].callee

\* C17: FuncPtrSet and BasicBlockPtrSet only grow; a step that adds to one of
\* them adds one identity, which was not in it, and is the insert of
\* traverseFunction for its own function or the insert of traverseBasicBlock
\* for its own block; no function whose display name is a sink or is
\* black-listed is ever in FuncPtrSet.
C17_SetsOnlyGrow ==
    [][/\ FuncPtrSet \subseteq FuncPtrSet'
       /\ BasicBlockPtrSet \subseteq BasicBlockPtrSet'
       /\ FuncPtrSet' # FuncPtrSet =>
             /\ Running("traverseFunction", "pushed")
             /\ top.F \notin FuncPtrSet
             /\ FuncPtrSet' = FuncPtrSet \cup {top.F}
       /\ BasicBlockPtrSet' # BasicBlockPtrSet =>
             /\ Running("traverseBasicBlock", "entry")
             /\ <<top.F, top.B>> \notin BasicBlockPtrSet
             /\ BasicBlockPtrSet' = BasicBlockPtrSet \cup {<<top.F, top.B>>}
       /\ (Running("traverseFunction", "pushed") /\ top.Name \notin BlackListSet) =>
             (top.F \notin FuncPtrSet /\ top.F \in FuncPtrSet')
       /\ \A F \in FuncPtrSet' :
             DisplayName(F) \notin SinkFunctionSet \cup BlackListSet]_vars

\* A finished run that called a sink, a black-listed function and foo, and
\* walked the body of foo.
C17_Witness ==
    /\ pc = "returned"
    /\ FuncPtrSet = {SourceFunction, "foo"}
    /\ <<"foo", 1>> \in BasicBlockPtrSet
    /\ \E s1 \in called : DisplayName(CalleeAt(s1)) \in SinkFunctionSet
    /\ \E s2 \in called : DisplayName(CalleeAt(s2)) \in BlackListSet

\* C18: with the member SourceFunction naming a black-listed function, every
\* run writes exactly one report, whose chain is the name of the source
\* alone, returns false from traverseFunction and walks no block; with
\* SourceFunction naming a sink, no run writes a report or walks a block and
\* traverseFunction returns true. In both cases no function is marked.
C18_SourceClassified ==
    /\ DisplayName(source) \in BlackListSet =>
          /\ BasicBlockPtrSet = {}
          /\ FuncPtrSet = {}
          /\ called = {}
          /\ pc = "returned" =>
                /\ ret = <<FALSE>>
                /\ \A k \in 1..Len(starts) :
                      RunReports(k) = <<WarningLine(<<DisplayName(source)>>)>>
    /\ DisplayName(source) \in SinkFunctionSet =>
          /\ BasicBlockPtrSet = {}
          /\ FuncPtrSet = {}
          /\ called = {}
          /\ errs = <<>>
          /\ pc = "returned" => ret = <<TRUE>>

\* Two runs from the black-listed source mutex_acquire, whose body calls foo,
\* have returned.
C18_Witness ==
    /\ pc = "returned"
    /\ source = "mutex_acquire"
    /\ size(getFunction(source)) # 0
    /\ Len(starts) = 2
    /\ errs = <<WarningLine(<<"mutex_acquire">>), WarningLine(<<"mutex_acquire">>)>>

\* The k-th invocation on the stack, counted from the outermost.
FromBottom(stk, k) == stk[Len(stk) - k + 1]

\* How far an invocation has got in its own code.
Position(fr) ==
    CASE fr.kind = "examineBlock" -> fr.i
      [] fr.kind = "traverseBasicBlock" ->
           (CASE fr.at = "entry" -> 0
              [] fr.at = "examine" -> 1
              [] fr.at = "terminator" -> 2
              [] fr.at = "successors" -> 2 + fr.i)
      [] fr.kind = "traverseFunction" ->
           (CASE fr.at = "entry" -> 0
              [] fr.at = "pushed" -> 1
              [] fr.at = "warned" -> 2
              [] fr.at = "body" -> 3
              [] fr.at = "leave" -> 4)

\* The invocation upper was made by the invocation lower from the place
\* where lower stands.
MadeFrom(lower, upper) ==
    CASE lower.kind = "examineBlock" ->
           /\ upper.kind = "traverseFunction"
           /\ lower.i \in DirectCalls(lower.F, lower.B)
           /\ upper.F = theInst(lower).callee
      [] lower.kind = "traverseBasicBlock" /\ lower.at = "examine" ->
           /\ upper.kind = "examineBlock"
           /\ upper.F = lower.F
           /\ upper.B = lower.B
      [] lower.kind = "traverseBasicBlock" /\ lower.at = "successors" ->
           /\ upper.kind = "traverseBasicBlock"
           /\ upper.F = lower.F
           /\ lower.i <= Len(theBlock(lower).succs)
           /\ upper.B = theBlock(lower).succs[lower.i]
      [] lower.kind = "traverseFunction" /\ lower.at = "body" ->
           /\ upper.kind = "traverseBasicBlock"
           /\ upper.F = lower.F
           /\ upper.B = 1
      [] OTHER -> FALSE

\* The stack is a path of the depth-first walk in pre-order. Of a block being
\* scanned, the call instructions before the current one have been followed
\* and have returned, the current one is being followed if the scan is not
\* on top, and none after it has been followed. Of a block whose successors
\* are being walked, every call instruction has been followed, the successors
\* before the current one have been walked and the current one is being
\* walked if the block's walk is not on top.
PreOrder(stk) ==
    /\ \A k \in 1..(Len(stk) - 1) : MadeFrom(stk[k + 1], stk[k])
    /\ \A k \in 1..Len(stk) :
          /\ stk[k].kind = "examineBlock" =>
                {j \in DirectCalls(stk[k].F, stk[k].B) :
                    <<stk[k].F, stk[k].B, j>> \in called} =
                {j \in DirectCalls(stk[k].F, stk[k].B) :
                    j < stk[k].i \/ (j = stk[k].i /\ k > 1)}
          /\ (stk[k].kind = "traverseBasicBlock" /\ stk[k].at \in {"terminator", "successors"}) =>
                \A j \in DirectCalls(stk[k].F, stk[k].B) :
                    <<stk[k].F, stk[k].B, j>> \in called
          /\ (stk[k].kind = "traverseBasicBlock" /\ stk[k].at = "successors") =>
                \A j \in 1..Len(theBlock(stk[k]).succs) :
                    (j < stk[k].i /\ theBlock(stk[k]).succs[j] # NullBlock) =>
                        <<stk[k].F, theBlock(stk[k]).succs[j]>> \in BasicBlockPtrSet

\* C19: reports come out in the pre-order of the depth-first walk. Lines are
\* only ever added at the end of the output, by the invocation of
\* traverseFunction on top of the stack; the stack is at every moment a path
\* of the walk on which each block has followed its call instructions in
\* instruction order up to the current one and, once it walks its
\* successors, has followed them all and walked the successors in list order
\* up to the current one; and no invocation ever moves backwards. So what an
\* earlier call instruction reports, its callee's subtree included, precedes
\* what a later one reports, and what a block's call instructions report
\* precedes what its successors report.
C19_PreOrderReports ==
    [][/\ PreOrder(stack)
       /\ PreOrder(stack)'
       /\ Len(errs') \in {Len(errs), Len(errs) + 1}
       /\ SubSeq(errs', 1, Len(errs)) = errs
       /\ errs' # errs =>
             /\ Running("traverseFunction", "pushed")
             /\ errs' = Append(errs, WarningLine(FunctionChain))
       /\ \A k \in 1..Len(stack) :
             k <= Len(stack') =>
                /\ FromBottom(stack', k).kind = FromBottom(stack, k).kind
                /\ FromBottom(stack', k).F = FromBottom(stack, k).F
                /\ FromBottom(stack', k).B = FromBottom(stack, k).B
                /\ Position(FromBottom(stack', k)) >= Position(FromBottom(stack, k))]_vars

\* One run over a source function whose first block calls _Z5panicv and whose
\* second block takes a mutex, with foo taking a mutex too: the report of the
\* third instruction of _Z5panicv, then the one under its fourth instruction,
\* then the one of the successor block.
C19_Witness ==
    /\ pc = "returned"
    /\ Len(starts) = 1
    /\ SourceFunction \in DOMAIN M
    /\ Len(M[SourceFunction]) = 2
    /\ M[SourceFunction][1].insts = <<Call("_Z5panicv")>>
    /\ M[SourceFunction][2].insts = <<Call("mutex_acquire")>>
    /\ errs = <<WarningLine(<<SourceFunction, "panic()", "mutex_acquire">>),
                WarningLine(<<SourceFunction, "panic()", "foo", "mutex_acquire">>),
                WarningLine(<<SourceFunction, "mutex_acquire">>)>>

====
